---- MODULE Spec2Model ----
(***************************************************************************)
(* The deferred-action queue of core/src/context.rs (ActionQueue,          *)
(* QueuedActions, ActionType and their Collect impls), together with the   *)
(* frame loop that fills and drains it.                                    *)
(***************************************************************************)
EXTENDS Naturals, Sequences, FiniteSets, Bags

VARIABLES
    queue,      \* ActionQueue.queue: the VecDeque, front first
    removed,    \* the display objects that have been taken off the display list
    pc,         \* the frame loop: "update", "drain" or "running"
    current,    \* the record the drain is invoking (an Option)
    ret,        \* what the last call of pop returned (NotCalled before the first)
    submitted,  \* history: the arguments of every queue_actions call, in call order
    popped,     \* history: every record a pop returned, in call order
    invoked,    \* history: every record the drain ran, in order
    goneAtPop,  \* history: whether popped[i]'s clip was removed when it was popped
    drainBase,  \* history, kept by SpecDrain: Len(submitted) when the drain under way began
    active_clip,  \* UpdateContext.active_clip
    target_clip,  \* UpdateContext.target_clip (an Option)
    start_clip,   \* UpdateContext.start_clip
    paths,      \* history: the target paths of the SetTarget actions run so far
    traceIn,    \* the ActionType handed to ActionType::trace
    reported    \* what that trace reported (an Option)

targetVars == <<active_clip, target_clip, start_clip, paths>>

vars == <<queue, removed, pc, current, ret, submitted, popped, invoked,
          goneAtPop, drainBase, targetVars, traceIn, reported>>

-----------------------------------------------------------------------------
(* Bounds *)

\* queue_actions calls in one behaviour
MaxActions == 3
\* arguments of a NotifyListeners action handed to ActionType::trace
MaxArgs == 3
\* queue_actions calls made on a queue that already holds about DEFAULT_CAPACITY
MaxExtra == 2
\* SetTarget actions run by one script
MaxSetTargets == 3

-----------------------------------------------------------------------------
(* Values *)

None == [some |-> FALSE]
Some(x) == [some |-> TRUE, value |-> x]
NotCalled == [called |-> FALSE]

Clips == {"X", "Y"}
Values == {"v1", "v2", "v3"}
Bytecodes == {"b1", "b2"}
MethodNames == {"onEnterFrame", "onUnload"}
Listeners == {"Mouse", "Key"}

Normal(b) == [tag |-> "Normal", bytecode |-> b]
InitAction(b) == [tag |-> "Init", bytecode |-> b]
Method(n) == [tag |-> "Method", name |-> n]
NotifyListeners(l, m, a) ==
    [tag |-> "NotifyListeners", listener |-> l, method |-> m, args |-> a]

\* Vec<Value>: the sequences over Values of length at most n
ArgVectors(n) == UNION {[1..k -> Values] : k \in 0..n}

ActionType(n) ==
    {Normal(b) : b \in Bytecodes} \cup {InitAction(b) : b \in Bytecodes}
        \cup {Method(m) : m \in MethodNames}
        \cup {NotifyListeners(l, "onMouseMove", a) : l \in Listeners, a \in ArgVectors(n)}

QueuedActions(c, a, u) == [clip |-> c, action_type |-> a, is_unload |-> u]

\* The actions the modelled movie queues: a frame script, an event handler
\* method and a listener notification with two arguments.
MovieActions ==
    {Normal("b1"), Method("onEnterFrame"),
     NotifyListeners("Mouse", "onMouseMove", <<"v1", "v2">>)}

-----------------------------------------------------------------------------
(* ActionQueue *)

DEFAULT_CAPACITY == 32

new == <<>>

\* Mutant: a default queue that is not empty
default_stale == <<QueuedActions("X", Method("onUnload"), TRUE)>>

default == new

\* Mutants of queue_actions: push_front instead of push_back; the is_unload
\* argument replaced by a constant; the argument vector stored back to front.
queue_actions_front(q, clip, action_type, is_unload) ==
    <<QueuedActions(clip, action_type, is_unload)>> \o q

queue_actions_unload(q, clip, action_type, is_unload) ==
    Append(q, QueuedActions(clip, action_type, TRUE))

queue_actions_no_unload(q, clip, action_type, is_unload) ==
    Append(q, QueuedActions(clip, action_type, FALSE))

queue_actions_rev_args(q, clip, action_type, is_unload) ==
    Append(q, QueuedActions(clip,
        IF action_type.tag = "NotifyListeners"
        THEN [action_type EXCEPT !.args =
                 [i \in DOMAIN @ |-> @[Len(@) + 1 - i]]]
        ELSE action_type,
        is_unload))

\* A ring of DEFAULT_CAPACITY slots that overwrites its oldest record when full
queue_actions_ring(q, clip, action_type, is_unload) ==
    IF Len(q) >= DEFAULT_CAPACITY
    THEN Append(Tail(q), QueuedActions(clip, action_type, is_unload))
    ELSE Append(q, QueuedActions(clip, action_type, is_unload))

\* Mutant: a record equal to one already queued is not queued again.
queue_actions_dedup(q, clip, action_type, is_unload) ==
    IF \E i \in DOMAIN q : q[i] = QueuedActions(clip, action_type, is_unload)
    THEN q
    ELSE Append(q, QueuedActions(clip, action_type, is_unload))

queue_actions(q, clip, action_type, is_unload) ==
    Append(q, QueuedActions(clip, action_type, is_unload))

\* Mutants of pop: pop_back instead of pop_front; front() without removal;
\* two records removed for one returned.
pop_back(q) ==
    IF q = <<>>
    THEN [result |-> None, queue |-> q]
    ELSE [result |-> Some(q[Len(q)]), queue |-> SubSeq(q, 1, Len(q) - 1)]

pop_peek(q) ==
    IF q = <<>>
    THEN [result |-> None, queue |-> q]
    ELSE [result |-> Some(Head(q)), queue |-> q]

pop_two(q) ==
    IF q = <<>>
    THEN [result |-> None, queue |-> q]
    ELSE [result |-> Some(Head(q)),
          queue |-> IF Len(q) > 1 THEN Tail(Tail(q)) ELSE Tail(q)]

\* Mutant: pop itself drops a head record whose clip is removed and whose
\* is_unload is FALSE, and returns the record behind it.
pop_skip_removed(q) ==
    IF q = <<>>
    THEN [result |-> None, queue |-> q]
    ELSE IF Head(q).clip \in removed /\ ~Head(q).is_unload
    THEN IF Len(q) > 1
         THEN [result |-> Some(q[2]), queue |-> Tail(Tail(q))]
         ELSE [result |-> None, queue |-> <<>>]
    ELSE [result |-> Some(Head(q)), queue |-> Tail(q)]

pop(q) ==
    IF q = <<>>
    THEN [result |-> None, queue |-> q]
    ELSE [result |-> Some(Head(q)), queue |-> Tail(q)]

-----------------------------------------------------------------------------
(* Collect *)

\* Mutant: the last argument is not traced.
ActionTypeTrace_short(a) ==
    IF a.tag = "NotifyListeners" /\ a.args # <<>>
    THEN SubSeq(a.args, 1, Len(a.args) - 1)
    ELSE <<>>

ActionTypeTrace(a) ==
    IF a.tag = "NotifyListeners" THEN a.args ELSE <<>>

\* Mutant: the clip is traced, the action_type is not.
QueuedActionsTrace_clip_only(o) == <<o.clip>>

\* Mutant: the action_type is traced, the clip is not.
QueuedActionsTrace_no_clip(o) == ActionTypeTrace(o.action_type)

QueuedActionsTrace(o) == <<o.clip>> \o ActionTypeTrace(o.action_type)

RECURSIVE ActionQueueTrace(_)
ActionQueueTrace(q) ==
    IF q = <<>> THEN <<>>
    ELSE QueuedActionsTrace(Head(q)) \o ActionQueueTrace(Tail(q))

-----------------------------------------------------------------------------
(* UpdateContext: the clips a script runs in *)

root == "_level0"

\* No script is running: the context is the root timeline's.
NoScript ==
    /\ active_clip = root
    /\ target_clip = Some(root)
    /\ start_clip = root
    /\ paths = <<>>

\* The target paths a script names: the empty path, the two clips, and a
\* path that names no clip.
TargetPaths == {"", "X", "Y", "missing"}

resolve_target_path(path) == IF path \in Clips THEN Some(path) ELSE None

\* Mutant: the empty path is resolved like any other, and names no clip.
set_target_no_reset(ctx, path) ==
    IF resolve_target_path(path).some
    THEN [ctx EXCEPT !.active_clip = resolve_target_path(path).value,
                     !.target_clip = resolve_target_path(path)]
    ELSE [ctx EXCEPT !.active_clip = ctx.root, !.target_clip = None]

\* The SetTarget action on the context's clips
set_target(ctx, path) ==
    IF path = ""
    THEN [ctx EXCEPT !.active_clip = ctx.start_clip,
                     !.target_clip = Some(ctx.start_clip)]
    ELSE IF resolve_target_path(path).some
    THEN [ctx EXCEPT !.active_clip = resolve_target_path(path).value,
                     !.target_clip = resolve_target_path(path)]
    ELSE [ctx EXCEPT !.active_clip = ctx.root, !.target_clip = None]

-----------------------------------------------------------------------------
(* The frame loop *)

Init ==
    /\ queue \in {new, default}
    /\ removed = {}
    /\ pc = "update"
    /\ current = None
    /\ ret = NotCalled
    /\ submitted = <<>>
    /\ popped = <<>>
    /\ invoked = <<>>
    /\ goneAtPop = <<>>
    /\ drainBase = 0
    /\ NoScript
    /\ traceIn = Method("onEnterFrame")
    /\ reported = None

\* A display object (pc = "update") or a running action (pc = "running")
\* pushes an action onto the queue.
Enqueue(limit, clip, action_type, is_unload) ==
    /\ pc \in {"update", "running"}
    /\ Len(submitted) < limit
    /\ queue' = queue_actions(queue, clip, action_type, is_unload)
    /\ submitted' = Append(submitted, QueuedActions(clip, action_type, is_unload))
    /\ UNCHANGED <<removed, pc, current, ret, popped, invoked, goneAtPop,
                   drainBase, targetVars, traceIn, reported>>

QueueActions(clip, action_type, is_unload) ==
    Enqueue(MaxActions, clip, action_type, is_unload)

\* Mutant: removing the clip of the running action aborts that action.
RemoveClip_abort(clip) ==
    /\ pc \in {"update", "running"}
    /\ clip \notin removed
    /\ removed' = removed \cup {clip}
    /\ IF pc = "running" /\ current.value.clip = clip /\ ~current.value.is_unload
       THEN /\ pc' = "drain"
            /\ current' = None
            /\ invoked' = SubSeq(invoked, 1, Len(invoked) - 1)
       ELSE UNCHANGED <<pc, current, invoked>>
    /\ UNCHANGED <<queue, ret, submitted, popped, goneAtPop, drainBase,
                   targetVars, traceIn, reported>>

\* A clip is taken off the display list, by the update pass or by a running action.
RemoveClip(clip) ==
    /\ pc \in {"update", "running"}
    /\ clip \notin removed
    /\ removed' = removed \cup {clip}
    /\ UNCHANGED <<queue, pc, current, ret, submitted, popped, invoked,
                   goneAtPop, drainBase, targetVars, traceIn, reported>>

\* The update pass is over; the frame loop starts to drain the queue.
BeginDrain(base) ==
    /\ pc = "update"
    /\ pc' = "drain"
    /\ drainBase' = base
    /\ UNCHANGED <<queue, removed, current, ret, submitted, popped, invoked,
                   goneAtPop, targetVars, traceIn, reported>>

StartDrain == BeginDrain(0)

\* One turn of the drain loop: pop, then skip or invoke.
DrainPop ==
    /\ pc = "drain"
    /\ LET r == pop(queue) IN
        /\ queue' = r.queue
        /\ ret' = r.result
        /\ IF ~r.result.some
           THEN /\ pc' = "update"
                /\ drainBase' = 0
                /\ UNCHANGED <<current, popped, invoked, goneAtPop>>
           ELSE LET actions == r.result.value IN
                /\ drainBase' = drainBase
                /\ popped' = Append(popped, actions)
                /\ goneAtPop' = Append(goneAtPop, actions.clip \in removed)
                /\ IF ~actions.is_unload /\ actions.clip \in removed
                   THEN /\ pc' = "drain"
                        /\ UNCHANGED <<current, invoked>>
                   ELSE /\ pc' = "running"
                        /\ current' = Some(actions)
                        /\ invoked' = Append(invoked, actions)
    /\ UNCHANGED <<removed, submitted, targetVars, traceIn, reported>>

\* The invoked action returns.
FinishAction ==
    /\ pc = "running"
    /\ pc' = "drain"
    /\ current' = None
    /\ UNCHANGED <<queue, removed, ret, submitted, popped, invoked, goneAtPop,
                   drainBase, targetVars, traceIn, reported>>

Next ==
    \/ \E c \in Clips, a \in MovieActions, u \in BOOLEAN : QueueActions(c, a, u)
    \/ \E c \in Clips : RemoveClip(c)
    \/ StartDrain
    \/ DrainPop
    \/ FinishAction

Spec == Init /\ [][Next]_vars

-----------------------------------------------------------------------------
(* The frame loop of a movie that queues init actions, each drain marked with
   the number of records submitted before it *)

QueueInitActions(clip, is_unload) ==
    Enqueue(MaxActions, clip, InitAction("b1"), is_unload)

StartDrainMarked == BeginDrain(Len(submitted))

NextDrain ==
    \/ \E c \in Clips, u \in BOOLEAN : QueueInitActions(c, u)
    \/ \E c \in Clips : RemoveClip(c)
    \/ StartDrainMarked
    \/ DrainPop
    \/ FinishAction

SpecDrain == Init /\ [][NextDrain]_vars

\* The drain loop keeps taking its turns and an invoked action returns.
SpecLive == SpecDrain /\ WF_vars(DrainPop) /\ WF_vars(FinishAction)

-----------------------------------------------------------------------------
(* A script runs SetTarget actions *)

InitTarget ==
    /\ queue \in {new, default}
    /\ removed = {}
    /\ pc = "update"
    /\ current = None
    /\ ret = NotCalled
    /\ submitted = <<>>
    /\ popped = <<>>
    /\ invoked = <<>>
    /\ goneAtPop = <<>>
    /\ drainBase = 0
    /\ start_clip \in Clips \cup {root}
    /\ active_clip = start_clip
    /\ target_clip = Some(start_clip)
    /\ paths = <<>>
    /\ traceIn = Method("onEnterFrame")
    /\ reported = None

SetTarget(path) ==
    /\ Len(paths) < MaxSetTargets
    /\ LET ctx == set_target([root |-> root, active_clip |-> active_clip,
                              target_clip |-> target_clip,
                              start_clip |-> start_clip], path)
       IN  /\ active_clip' = ctx.active_clip
           /\ target_clip' = ctx.target_clip
           /\ start_clip' = ctx.start_clip
    /\ paths' = Append(paths, path)
    /\ UNCHANGED <<queue, removed, pc, current, ret, submitted, popped,
                   invoked, goneAtPop, drainBase, traceIn, reported>>

NextTarget == \E path \in TargetPaths : SetTarget(path)

SpecTarget == InitTarget /\ [][NextTarget]_vars

-----------------------------------------------------------------------------
(* The collector traces one action *)

InitTrace ==
    /\ queue = new
    /\ removed = {}
    /\ pc = "update"
    /\ current = None
    /\ ret = NotCalled
    /\ submitted = <<>>
    /\ popped = <<>>
    /\ invoked = <<>>
    /\ goneAtPop = <<>>
    /\ drainBase = 0
    /\ NoScript
    /\ traceIn \in ActionType(MaxArgs)
    /\ reported = None

TraceAction ==
    /\ reported = None
    /\ reported' = Some(ActionTypeTrace(traceIn))
    /\ UNCHANGED <<queue, removed, pc, current, ret, submitted, popped,
                   invoked, goneAtPop, drainBase, targetVars, traceIn>>

NextTrace == TraceAction

SpecTrace == InitTrace /\ [][NextTrace]_vars

-----------------------------------------------------------------------------
(* The frame loop on a queue that holds DEFAULT_CAPACITY - 1 records *)

\* The arguments of the i-th of the calls that filled the queue
FillArgs(i) ==
    QueuedActions(IF i % 2 = 1 THEN "X" ELSE "Y",
                  CASE i % 3 = 1 -> Normal("b1")
                    [] i % 3 = 2 -> Method("onEnterFrame")
                    [] OTHER -> NotifyListeners("Mouse", "onMouseMove", <<"v1", "v2">>),
                  i % 4 = 0)

\* The queue after n calls of queue_actions on a new queue
RECURSIVE Filled(_)
Filled(n) ==
    IF n = 0 THEN new
    ELSE queue_actions(Filled(n - 1), FillArgs(n).clip, FillArgs(n).action_type,
                       FillArgs(n).is_unload)

InitFull ==
    /\ queue = Filled(DEFAULT_CAPACITY - 1)
    /\ removed = {}
    /\ pc = "update"
    /\ current = None
    /\ ret = NotCalled
    /\ submitted = [i \in 1..(DEFAULT_CAPACITY - 1) |-> FillArgs(i)]
    /\ popped = <<>>
    /\ invoked = <<>>
    /\ goneAtPop = <<>>
    /\ drainBase = 0
    /\ NoScript
    /\ traceIn = Method("onEnterFrame")
    /\ reported = None

QueueActionsFull(clip, action_type, is_unload) ==
    Enqueue(DEFAULT_CAPACITY - 1 + MaxExtra, clip, action_type, is_unload)

NextFull ==
    \/ \E c \in Clips, a \in MovieActions, u \in BOOLEAN : QueueActionsFull(c, a, u)
    \/ StartDrain
    \/ DrainPop
    \/ FinishAction

SpecFull == InitFull /\ [][NextFull]_vars

-----------------------------------------------------------------------------
(* Properties *)

Range(s) == {s[i] : i \in DOMAIN s}

\* The bag of the elements of a sequence
BagOfSeq(s) == [x \in Range(s) |-> Cardinality({i \in DOMAIN s : s[i] = x})]

\* A step taken from pc = "drain" is one call of pop by the drain loop.
PopCall == pc = "drain"

\* C1 (FIFO): while fewer records have been popped than were submitted, a
\* call of pop returns Some record, and the i-th successful pop returns the
\* record of the i-th queue_actions call.
C1_Fifo ==
    [][(PopCall /\ Len(popped) < Len(submitted)) =>
          /\ ret'.some
          /\ ret'.value = submitted[Len(popped) + 1]
          /\ popped' = SubSeq(submitted, 1, Len(popped) + 1)]_vars

C1_Witness ==
    /\ Len(popped) >= 3
    /\ popped = submitted
    /\ Cardinality(Range(submitted)) = Len(submitted)

\* C2 (liveness-skip): when the drain pops a record that was queued with
\* is_unload = FALSE and whose clip has been removed, it invokes nothing:
\* the record is popped and the loop goes on to its next turn.
C2_LivenessSkip ==
    [][(/\ PopCall
        /\ Len(popped) < Len(submitted)
        /\ ~submitted[Len(popped) + 1].is_unload
        /\ submitted[Len(popped) + 1].clip \in removed) =>
          /\ Len(popped') = Len(popped) + 1
          /\ invoked' = invoked
          /\ current' = None
          /\ pc' = "drain"]_vars

C2_Witness ==
    /\ popped # <<>>
    /\ ~submitted[Len(popped)].is_unload
    /\ goneAtPop[Len(popped)]
    /\ ret = Some(submitted[Len(popped)])
    /\ pc = "drain"

\* C3 (survive-unload): when the drain pops a record that was queued with
\* is_unload = TRUE and whose clip has been removed, it invokes that record.
C3_SurviveUnload ==
    [][(/\ PopCall
        /\ Len(popped) < Len(submitted)
        /\ submitted[Len(popped) + 1].is_unload
        /\ submitted[Len(popped) + 1].clip \in removed) =>
          /\ invoked' = Append(invoked, submitted[Len(popped) + 1])
          /\ current' = Some(submitted[Len(popped) + 1])
          /\ pc' = "running"]_vars

C3_Witness ==
    /\ popped # <<>>
    /\ submitted[Len(popped)].is_unload
    /\ goneAtPop[Len(popped)]
    /\ current = Some(submitted[Len(popped)])
    /\ pc = "running"

\* The submitted records among the first n whose clip was live when they
\* were popped or whose is_unload flag was set, in submission order.
RECURSIVE Kept(_)
Kept(n) ==
    IF n = 0 THEN <<>>
    ELSE IF submitted[n].is_unload \/ ~goneAtPop[n]
         THEN Append(Kept(n - 1), submitted[n])
         ELSE Kept(n - 1)

\* A (X, FALSE), B (Y, FALSE), C (X, TRUE) queued in that order, X removed
\* before the drain popped A, all three popped.
Scenario ==
    /\ Len(submitted) = 3
    /\ Len(popped) = 3
    /\ <<submitted[1].clip, submitted[2].clip, submitted[3].clip>> = <<"X", "Y", "X">>
    /\ <<submitted[1].is_unload, submitted[2].is_unload, submitted[3].is_unload>>
           = <<FALSE, FALSE, TRUE>>
    /\ goneAtPop = <<TRUE, FALSE, TRUE>>

\* C4 (end-to-end drain order): the invoked records are exactly the submitted
\* records, among those popped so far, whose clip was live at pop time or
\* whose is_unload is TRUE, in submission order; in the scenario that is [B, C].
C4_DrainOrder ==
    /\ Len(goneAtPop) = Len(popped)
    /\ Len(popped) <= Len(submitted)
    /\ invoked = Kept(Len(popped))
    /\ Scenario => invoked = <<submitted[2], submitted[3]>>

C4_Witness ==
    /\ Scenario
    /\ ret = None
    /\ queue = <<>>

\* C5 (consumed exactly once): no record is returned by pop more often than
\* it was submitted, and once pop has returned None on the emptied queue every
\* submitted record has been returned exactly as often as it was submitted.
C5_ExactlyOnce ==
    /\ BagOfSeq(popped) \sqsubseteq BagOfSeq(submitted)
    /\ (ret = None /\ queue = <<>>) => BagOfSeq(popped) = BagOfSeq(submitted)

C5_Witness ==
    /\ ret = None
    /\ queue = <<>>
    /\ Len(submitted) >= 3
    /\ \E i, j \in DOMAIN submitted : i # j /\ submitted[i] = submitted[j]

\* C6 (pop): on the empty queue pop returns None and leaves the queue empty;
\* otherwise it returns Some(head) and the queue before the call is that head
\* followed by the queue after it.
C6_Pop ==
    [][PopCall =>
          IF queue = <<>>
          THEN ret' = None /\ queue' = <<>>
          ELSE /\ ret' = Some(Head(queue))
               /\ queue = <<Head(queue)>> \o queue'
               /\ Len(queue') = Len(queue) - 1]_vars

C6_Witness ==
    /\ ret = None
    /\ queue = <<>>
    /\ Len(popped) >= 2

\* C7 (queue_actions on a full queue): every call of queue_actions, also one
\* made when the queue holds DEFAULT_CAPACITY records or more, leaves the
\* queue as it was with the new record added at the tail.
C7_Unbounded ==
    [][Len(submitted') = Len(submitted) + 1 =>
          /\ Len(queue') = Len(queue) + 1
          /\ SubSeq(queue', 1, Len(queue)) = queue
          /\ queue'[Len(queue')] = submitted'[Len(submitted')]]_vars

C7_Witness ==
    /\ Len(queue) > DEFAULT_CAPACITY
    /\ queue = submitted

\* C8 (never mutated after enqueue): the record a pop returns has the clip,
\* the action_type (variant and payload, the NotifyListeners arguments in
\* order) and the is_unload of the queue_actions call that created it.
C8_NeverMutated ==
    ret \in {None, NotCalled} \/
        LET r == ret.value
            s == submitted[Len(popped)]
        IN  /\ r.clip = s.clip
            /\ r.is_unload = s.is_unload
            /\ r.action_type.tag = s.action_type.tag
            /\ r.action_type.tag \in {"Normal", "Init"} =>
                   r.action_type.bytecode = s.action_type.bytecode
            /\ r.action_type.tag = "Method" =>
                   r.action_type.name = s.action_type.name
            /\ r.action_type.tag = "NotifyListeners" =>
                   /\ r.action_type.listener = s.action_type.listener
                   /\ r.action_type.method = s.action_type.method
                   /\ Len(r.action_type.args) = Len(s.action_type.args)
                   /\ \A k \in DOMAIN s.action_type.args :
                          r.action_type.args[k] = s.action_type.args[k]

\* A NotifyListeners record comes back after other calls were made in between.
C8_Witness ==
    /\ Len(popped) >= 2
    /\ Len(submitted) >= 3
    /\ ret = Some(popped[Len(popped)])
    /\ ret.value.action_type.tag = "NotifyListeners"
    /\ ret.value.action_type.args = <<"v1", "v2">>

\* C9 (tracing completeness of an action): the trace of a NotifyListeners
\* action reports its K arguments, each as often as it occurs among them and
\* nothing else; the trace of a Normal, Init or Method action reports nothing.
C9_TraceAction ==
    reported.some =>
        IF traceIn.tag = "NotifyListeners"
        THEN /\ Len(reported.value) = Len(traceIn.args)
             /\ BagOfSeq(reported.value) = BagOfSeq(traceIn.args)
        ELSE reported.value = <<>>

C9_Witness ==
    /\ reported.some
    /\ traceIn.tag = "NotifyListeners"
    /\ Len(traceIn.args) = 3
    /\ Cardinality(Range(traceIn.args)) = 2

\* C10 (queued arguments stay alive): the queue's trace reports every
\* argument of every NotifyListeners record submitted and not yet popped.
C10_QueuedArgsTraced ==
    \A i \in (Len(popped) + 1)..Len(submitted) :
        submitted[i].action_type.tag = "NotifyListeners" =>
            \A k \in DOMAIN submitted[i].action_type.args :
                submitted[i].action_type.args[k] \in Range(ActionQueueTrace(queue))

C10_Witness ==
    /\ Len(popped) >= 1
    /\ Len(submitted) - Len(popped) >= 2
    /\ submitted[Len(submitted)].action_type.tag = "NotifyListeners"
    /\ submitted[Len(popped) + 1].action_type.tag # "NotifyListeners"

\* The i-th submitted record was popped i-th and the drain invoked it.
WasInvoked(i) ==
    /\ i <= Len(popped)
    /\ popped[i] = submitted[i]
    /\ Len(Kept(i)) = Len(Kept(i - 1)) + 1
    /\ Len(Kept(i)) <= Len(invoked)
    /\ invoked[Len(Kept(i))] = submitted[i]

\* The i-th submitted record was popped i-th and the drain discarded it.
WasDiscarded(i) ==
    /\ i <= Len(popped)
    /\ popped[i] = submitted[i]
    /\ Len(Kept(i)) = Len(Kept(i - 1))

\* The drain loop leaves: its pop returned None.
DrainEnds == pc = "drain" /\ pc' = "update"

\* C11 as claimed: when a drain ends, it has invoked every record that was
\* queued while it was under way.
C11_Original ==
    [][DrainEnds =>
          \A i \in (drainBase + 1)..Len(submitted) : WasInvoked(i)]_vars

\* C11 (enqueue during drain), amended: when a drain ends, every record
\* queued while it was under way has been popped by it, after the records
\* queued before it, and has been invoked if its clip was live at its pop or
\* its is_unload is TRUE, and discarded otherwise.
C11_EnqueueDuringDrain ==
    [][DrainEnds =>
          \A i \in (drainBase + 1)..Len(submitted) :
              /\ i <= Len(popped)
              /\ SubSeq(popped, 1, i) = SubSeq(submitted, 1, i)
              /\ IF submitted[i].is_unload \/ ~goneAtPop[i]
                 THEN WasInvoked(i)
                 ELSE WasDiscarded(i)]_vars

C11_Witness ==
    /\ pc = "drain"
    /\ queue = <<>>
    /\ drainBase >= 1
    /\ Len(submitted) >= drainBase + 2
    /\ WasInvoked(Len(submitted))
    /\ WasDiscarded(Len(submitted) - 1)

\* C16 (drain termination): a drain under way comes to the pop that returns
\* None, and then the queue is empty and every submitted record was popped.
C16_DrainTerminates ==
    (pc = "drain") ~>
        (pc = "update" /\ ret = None /\ queue = <<>> /\ popped = submitted)

C16_Witness ==
    /\ pc = "update"
    /\ ret = None
    /\ queue = <<>>
    /\ popped = submitted
    /\ Len(submitted) >= 3
    /\ Len(invoked) >= 2

\* C12 (redirect-reset): after a SetTarget to a path that names no clip,
\* active_clip is root and target_clip is None; after a SetTarget to the empty
\* path, active_clip and target_clip are start_clip again.
C12_RedirectReset ==
    paths # <<>> =>
        /\ paths[Len(paths)] = "missing" =>
               active_clip = root /\ target_clip = None
        /\ paths[Len(paths)] = "" =>
               active_clip = start_clip /\ target_clip = Some(start_clip)

C12_Witness ==
    /\ Len(paths) >= 2
    /\ paths[Len(paths) - 1] = "missing"
    /\ paths[Len(paths)] = ""
    /\ start_clip # root
    /\ active_clip = start_clip

\* C13 (prefix order under interleaving): the popped records are a prefix of
\* the submitted ones and the queue holds the rest, in submission order.
C13_PrefixOrder ==
    /\ Len(popped) <= Len(submitted)
    /\ popped = SubSeq(submitted, 1, Len(popped))
    /\ queue = SubSeq(submitted, Len(popped) + 1, Len(submitted))

\* A record was queued after the pop that returned None, which followed two
\* pops that returned records.
C13_Witness ==
    /\ ret = None
    /\ Len(popped) = 2
    /\ Len(queue) = 1
    /\ queue[1] # popped[1]
    /\ queue[1] # popped[2]
    /\ popped[1] # popped[2]

\* The records submitted and not yet popped
Pending == (Len(popped) + 1)..Len(submitted)

\* C14 (lazy invalidation): the removal of a clip leaves the queue as it
\* is, and a pop returns the head record also when that record's clip has been
\* removed, whatever its is_unload.
C14_LazyInvalidation ==
    [][/\ removed' # removed => queue' = queue
       /\ (PopCall /\ queue # <<>> /\ Head(queue).clip \in removed) =>
              /\ ret' = Some(Head(queue))
              /\ queue' = Tail(queue)
              /\ popped' = Append(popped, Head(queue))]_vars

C14_Witness ==
    /\ ret \notin {None, NotCalled}
    /\ goneAtPop[Len(popped)]
    /\ ~ret.value.is_unload
    /\ queue # <<>>
    /\ queue[1].clip \in removed
    /\ queue[1].is_unload

\* C15 (no mid-action cancellation): the removal of a clip while an action
\* is being invoked leaves that action invoked and running, and the action
\* returns to the drain loop with the record of what was invoked unchanged.
C15_NoCancellation ==
    [][/\ (pc = "running" /\ removed' # removed) =>
              /\ pc' = "running"
              /\ current' = current
              /\ invoked' = invoked
       /\ (pc = "running" /\ pc' # "running") =>
              /\ pc' = "drain"
              /\ invoked' = invoked
              /\ invoked[Len(invoked)] = current.value]_vars

\* The clip of the running action was removed after the action was popped.
C15_Witness ==
    /\ pc = "running"
    /\ current.value.clip \in removed
    /\ ~current.value.is_unload
    /\ ~goneAtPop[Len(popped)]
    /\ invoked[Len(invoked)] = current.value

\* C17 (fresh queue): as long as queue_actions has not been called, on a
\* queue made by new or by default, the queue is empty, its trace reports
\* nothing and every pop has returned None.
C17_FreshQueue ==
    submitted = <<>> =>
        /\ queue = <<>>
        /\ ActionQueueTrace(queue) = <<>>
        /\ ret \in {NotCalled, None}
        /\ popped = <<>>

C17_Witness ==
    /\ submitted = <<>>
    /\ ret = None
    /\ pc = "update"

\* C18 (length accounting, no deduplication): the queue holds as many
\* records as queue_actions was called less the pops that returned a record.
C18_LengthAccounting ==
    Len(queue) + Len(popped) = Len(submitted)

\* Two equal records are queued at once.
C18_Witness ==
    /\ Len(popped) >= 1
    /\ Len(queue) = 2
    /\ queue[1] = queue[2]
    /\ queue[1].action_type.tag = "Normal"

\* C19 (queued target stays reachable): the queue's trace reports the clip
\* of every record submitted and not yet popped.
C19_QueuedClipTraced ==
    \A i \in Pending : submitted[i].clip \in Range(ActionQueueTrace(queue))

C19_Witness ==
    /\ Len(queue) = 1
    /\ queue[1].clip \in removed
    /\ queue[1].action_type.tag = "Method"
    /\ Len(popped) >= 1
    /\ popped[1].clip # queue[1].clip

\* C20 (trace set equals queue contents): the queue's trace reports the
\* clips and the NotifyListeners arguments of the records submitted and not
\* yet popped, and nothing else.
C20_TraceSet ==
    Range(ActionQueueTrace(queue)) =
        {submitted[i].clip : i \in Pending} \cup
        UNION {Range(submitted[i].action_type.args) :
                  i \in {j \in Pending : submitted[j].action_type.tag = "NotifyListeners"}}

\* A popped NotifyListeners record whose clip and arguments no queued record holds
C20_Witness ==
    /\ popped # <<>>
    /\ queue # <<>>
    /\ popped[Len(popped)].action_type.tag = "NotifyListeners"
    /\ popped[Len(popped)].clip \notin Range(ActionQueueTrace(queue))
    /\ "v1" \notin Range(ActionQueueTrace(queue))

====
